---- MODULE Spec2Model ----
(***************************************************************************)
(* A model of blogi's orchestration controller (src/core/agent.py), its    *)
(* Researcher pipeline (src/generators/researcher.py), the web service     *)
(* (src/core/web_service.py) and the image service                         *)
(* (src/services/process_image_service.py).                                *)
(*                                                                         *)
(* Three specifications share the variables:                               *)
(*   Spec           one run of BlogAgent.create                            *)
(*   LifecycleSpec  a constructed BlogAgent whose initialize_services and  *)
(*                  cleanup are called directly, in any order              *)
(*   PipelineSpec   ResearcherPostGenerator.generate_blog_post called on   *)
(*                  an agent whose services are initialised, and its       *)
(*                  result handled as create handles a generator's result  *)
(*                                                                         *)
(* External collaborators (aiohttp, the completion, search, image and      *)
(* prompt services, the file system) are nondeterministic outcomes.        *)
(***************************************************************************)
EXTENDS Integers, Sequences, FiniteSets, TLC

VARIABLES
    mode,          \* which entry point drives the behaviour
    pc,            \* position in the code
    cfg,           \* the arguments of create / __init__ and the environment
    heap,          \* every aiohttp session create_session made: id -> record
    sessions,      \* self.sessions: the tracked session ids
    anthropic,     \* self.anthropic is not None
    brave_client,  \* self.brave_client is not None
    is_closed,     \* self._is_closed
    exc,           \* the exception in flight ("None" when there is none)
    pending,       \* the value a return statement inside `async with` carries
    result,        \* what create returned (NoResult until it returns)
    calls,         \* counters of the calls made to collaborators
    ghost,         \* history the claims speak about
    ws,            \* WebService._session: "none", "open" or "closed"
    pl             \* the Researcher pipeline: its locals, calls and history

vars == <<mode, pc, cfg, heap, sessions, anthropic, brave_client, is_closed,
          exc, pending, result, calls, ghost, ws, pl>>

None == "None"

----------------------------------------------------------------------------
(* Bounds *)

\* how many times the lifecycle harness may call initialize_services
MaxInitCalls == 2

\* how many times the lifecycle harness may call cleanup
MaxCleanupCalls == 2

----------------------------------------------------------------------------
(* Configuration values: src/core/config.py *)

BLOG_RESEARCHER_AI_AGENT == "blog_researcher_ai_agent"
BLOG_ARTIST_AI_AGENT == "blog_artist_ai_agent"

\* an agent_type string that is neither of the two kinds
OtherAgentType == "other_agent"

AgentTypes == {BLOG_RESEARCHER_AI_AGENT, BLOG_ARTIST_AI_AGENT, OtherAgentType}

\* Python truthiness of an Optional[str] argument: absent (None or "") or present
Absent == "absent"
Present == "present"
OptStr == {Absent, Present}

Configs ==
    [agent_type : AgentTypes,
     topic : OptStr,
     webhook_url : OptStr,
     image_prompt : OptStr,
     api_key : BOOLEAN,            \* ANTHROPIC_API_KEY is set
     anthropic_has_session : BOOLEAN,  \* hasattr(self.anthropic, 'session')
     brave_has_cleanup : BOOLEAN]      \* hasattr(self.brave_client, 'cleanup')

----------------------------------------------------------------------------
(* BlogAgent.__init__ validation *)

valid_types == {BLOG_RESEARCHER_AI_AGENT, BLOG_ARTIST_AI_AGENT}

\* _validate_agent_type: raises ValueError unless this holds
ValidateAgentType(agent_type) == agent_type \in valid_types

\* faulty variant: the topic requirement of line 77 left out
ValidateRequirementsNoTopic(agent_type, topic, webhook_url) ==
    ~(agent_type = BLOG_ARTIST_AI_AGENT /\ webhook_url = Absent)

\* _validate_requirements: raises ValueError unless this holds
ValidateRequirements(agent_type, topic, webhook_url) ==
    /\ ~(agent_type = BLOG_RESEARCHER_AI_AGENT /\ topic = Absent)
    /\ ~(agent_type = BLOG_ARTIST_AI_AGENT /\ webhook_url = Absent)

\* _validate_initialization: raises ValueError unless this holds
ValidateInitialization(c) ==
    /\ c.api_key
    /\ c.agent_type \in {BLOG_ARTIST_AI_AGENT, BLOG_RESEARCHER_AI_AGENT}

\* __init__ completes without raising
ConstructorSucceeds(c) ==
    /\ ValidateAgentType(c.agent_type)
    /\ ValidateRequirements(c.agent_type, c.topic, c.webhook_url)
    /\ ValidateInitialization(c)

----------------------------------------------------------------------------
(* Results of create: (success, message, filepath) *)

MsgDependency == "Dependency check failed"
MsgDirectory == "Directory structure check failed"
MsgPaths == "Path verification failed"
MsgGeneration == "Blog generation failed"
MsgSave == "Failed to save blog post"
MsgSuccess == "Blog post generated and saved successfully"
\* f"Error: {str(e)}": the text of the exception is abstracted away
MsgError == "Error: <exception>"

Triple(s, m, f) == [success |-> s, message |-> m, filepath |-> f]

\* the value of `result` and `pending` while create has returned nothing
NoResult == Triple(FALSE, "(not returned)", None)

\* the path save_to_obsidian_notes returns on success
SavedPath == "OBSIDIAN_AI_POSTS_PATH/filename"

----------------------------------------------------------------------------
(* Sessions *)

NewSession == [closed |-> FALSE, closeCalls |-> 0]

\* create_session: make a session and track it
CreateSessionHeap == Append(heap, NewSession)
CreateSessionList == Append(sessions, Len(heap) + 1)

\* what a call of session.close() can do: return, or raise. aiohttp marks the
\* session's connector closed before it releases the transports, so the
\* session reads closed after either
CloseOutcomes == {"ok", "raise"}

\* faulty variant: the test of line 216 inverted
ShouldCloseInverted(s) == heap[s].closed

\* cleanup, line 216: close a tracked session only if it is not closed
ShouldClose(s) == ~heap[s].closed

\* faulty variant: the try/except of lines 215-219 left out, so that the
\* loop ends at the first close() that raises
CloseCallsUntilError(o) ==
    {i \in DOMAIN sessions :
        /\ ShouldClose(sessions[i])
        /\ \A j \in 1..(i - 1) : ShouldClose(sessions[j]) => o[j] = "ok"}

\* lines 214-219: the close() calls cleanup's loop makes, o[i] the outcome of
\* closing the i-th tracked session; each is in a try/except of its own
CloseCallsOf(o) == {i \in DOMAIN sessions : ShouldClose(sessions[i])}

\* those of them that raise
CloseErrorsOf(o) == {i \in CloseCallsOf(o) : o[i] # "ok"}

\* the heap after cleanup's loop over self.sessions
ClosedHeap(o) ==
    [h \in DOMAIN heap |->
        IF \E i \in CloseCallsOf(o) : sessions[i] = h
        THEN [closed |-> TRUE, closeCalls |-> heap[h].closeCalls + 1]
        ELSE heap[h]]

----------------------------------------------------------------------------
(* Text. A text is a sequence of tokens: a word, " ", "-" or a quotation   *)
(* mark. The empty text <<>> stands for "" and for None (both falsy).      *)

Space == " "
Hyphen == "-"
Quote == "\""

EmptyText == <<>>

\* Python truthiness of a text
Truthy(t) == t # EmptyText

RECURSIVE StripLeft(_)
StripLeft(t) ==
    IF t # <<>> /\ Head(t) = Space THEN StripLeft(Tail(t)) ELSE t

RECURSIVE StripRight(_)
StripRight(t) ==
    IF t # <<>> /\ t[Len(t)] = Space
    THEN StripRight(SubSeq(t, 1, Len(t) - 1)) ELSE t

\* str.strip()
Strip(t) == StripRight(StripLeft(t))

\* str.replace(a, b) for single tokens
Replace(t, a, b) == [i \in DOMAIN t |-> IF t[i] = a THEN b ELSE t[i]]

\* str.replace(a, "")
Remove(t, a) == SelectSeq(t, LAMBDA x : x # a)

\* str.split(sep): the pieces between the separators, empty pieces kept
RECURSIVE Split(_, _)
Split(t, sep) ==
    IF \A i \in DOMAIN t : t[i] # sep
    THEN <<t>>
    ELSE LET k == CHOOSE i \in DOMAIN t :
                    t[i] = sep /\ \A j \in 1..(i - 1) : t[j] # sep
         IN <<SubSeq(t, 1, k - 1)>> \o Split(SubSeq(t, k + 1, Len(t)), sep)

\* sep.join(pieces)
RECURSIVE Join(_, _)
Join(pieces, sep) ==
    IF pieces = <<>> THEN <<>>
    ELSE IF Len(pieces) = 1 THEN pieces[1]
    ELSE pieces[1] \o <<sep>> \o Join(Tail(pieces), sep)

\* [x] * n
RECURSIVE Repeat(_, _)
Repeat(x, n) == IF n <= 0 THEN <<>> ELSE <<x>> \o Repeat(x, n - 1)

----------------------------------------------------------------------------
(* Metadata helpers: BlogAgent.generate_title / generate_tags /            *)
(* generate_filename                                                       *)

default_title == <<"Default", Space, "Title", Space, "Post", Space, "Is", Space, "Here">>
default_filename == <<"Default", Hyphen, "Title", Hyphen, "Post", Hyphen, "Is", Hyphen, "Here">>
default_tags == <<"[]">>

\* words a filename stem is cut or padded to
FilenameWords == 5

\* how a completion call of a helper can end: a non-empty response, an empty
\* one, an exception, or no call because the prompt template could not be read
\* (read_file returned None, and None.format raises inside the same try)
FieldOutcomes == {"ok", "empty", "raise", "noprompt"}

\* the helper's completion call was made
FieldAsked(o) == o # "noprompt"

\* line 286
TitleOf(response) ==
    IF Truthy(response) THEN Strip(Remove(response, Quote)) ELSE default_title

\* lines 297-301
FilenameOf(response) ==
    IF Truthy(response)
    THEN LET summary == Replace(Strip(response), Space, Hyphen)
             words == Split(summary, Hyphen)
         IN Join(IF Len(words) > FilenameWords
                 THEN SubSeq(words, 1, FilenameWords)
                 ELSE words \o Repeat(<<"Update">>, FilenameWords - Len(words)),
                 Hyphen)
    ELSE default_filename

\* line 310: the response is returned as it is
TagsOf(response) == response

\* what the completion model answers with, when it answers
TitleResponses ==
    {<<"Quantum", Space, "Computing">>,
     <<Quote, "Quantum", Space, "Computing", Quote, Space>>}

TagsResponses == {<<"[qc,", Space, "physics]">>}

FilenameResponses ==
    {<<"foo", Hyphen, "bar">>,
     <<"Quantum", Hyphen, "Computing", Hyphen, "Explained", Hyphen, "Today", Hyphen, "Now">>,
     <<"a", Space, "b", Space, "c", Space, "d", Space, "e", Space, "f", Space, "g">>,
     \* two words with two spaces between them
     <<"foo", Space, Space, "bar">>,
     \* white space only: truthy, and empty once stripped
     <<Space>>}

\* the response of a call that ended as o
ResponsesOf(o, answers) == IF o = "ok" THEN answers ELSE {EmptyText}

\* generate_title (content is the non-empty body): its try/except wraps the
\* template read and the call
GenerateTitle(o, response) ==
    IF o \in {"raise", "noprompt"} THEN default_title ELSE TitleOf(response)

\* generate_filename
GenerateFilename(o, response) ==
    IF o \in {"raise", "noprompt"} THEN default_filename ELSE FilenameOf(response)

\* generate_tags
GenerateTags(o, response) ==
    IF o \in {"raise", "noprompt"} THEN default_tags ELSE TagsOf(response)

\* datetime.now().strftime('%Y-%m-%d')
Today == "YYYY-MM-DD"

\* ResearcherPostGenerator._generate_filename
DatedFilename(stem) == <<Today, Hyphen>> \o stem \o <<".md">>

----------------------------------------------------------------------------
(* The Researcher pipeline's data *)

\* templates _load_templates reads, in order
TemplateNames ==
    <<"agent_prompt", "enhanced_prompt", "disclaimer", "frontmatter",
      "blog_template", "summarize_content">>

\* search_results[:3]
TopResults == 3

\* the most results a search returns in the model
MaxResults == 4

Min(a, b) == IF a < b THEN a ELSE b

NoSummaryAvailable == "No summary available."
SummaryText == "summary"

\* _format_research_summary: one block per item of research_data, in order
FormatResearchSummary(research_data) ==
    [k \in DOMAIN research_data |->
        [source |-> research_data[k].rank,
         summary |-> IF research_data[k].content_summary = Absent
                     THEN NoSummaryAvailable
                     ELSE research_data[k].content_summary]]

\* what generate_blog_post returns: (filename, blog_page)
Pair(f, b) == [filename |-> f, blog_page |-> b]

\* a document that is plain text: no frontmatter, no disclaimer
PlainText(t) ==
    [frontmatter |-> [title |-> EmptyText, tags |-> EmptyText, date |-> "",
                      author |-> ""],
     disclaimer |-> "",
     content |-> t]

\* None: nothing returned
NoPair == Pair(EmptyText, PlainText(""))

\* line 48
DefaultPair == Pair(<<"default.md">>, PlainText("Failed to generate content"))

\* line 60
ErrorPair ==
    Pair(<<"error.md">>, PlainText("Error generating post: <exception>"))

\* the draft body the completion model returns
BodyText == "draft body"

\* _format_pages: the blog page with its frontmatter filled in
BlogPage(metadata, content) ==
    [frontmatter |-> [title |-> metadata.title, tags |-> metadata.tags,
                      date |-> metadata.date, author |-> "AI Agent Researcher"],
     disclaimer |-> "disclaimer",
     content |-> content]

\* agent.py line 148, `if not result`: the caller's test for a failed
\* generation; any 2-tuple passes it
NotResult(r) == r = NoPair

\* an entry of the log of calls: which call, and for a template load, a
\* fetch or a summary, of which template or result
Call(c, r) == [call |-> c, rank |-> r]

NoMetadata ==
    [title |-> EmptyText, tags |-> EmptyText, filename |-> EmptyText,
     date |-> Today]

NoPipeline ==
    [templates |-> 0,            \* templates loaded
     n |-> 0,                    \* len(search_results)
     i |-> 1,                    \* rank of the result the loop is at
     content |-> FALSE,          \* the fetched content is truthy
     research_data |-> <<>>,
     research_summary |-> <<>>,  \* the blocks put in the body prompt
     body |-> "none",            \* how the body completion ended
     out |-> [title |-> "none", tags |-> "none", filename |-> "none"],
     metadata |-> NoMetadata,
     ret |-> NoPair,
     filename_response |-> EmptyText,  \* what the filename completion answered
     \* calls made
     reads |-> 0, searches |-> 0, fetches |-> 0, summaries |-> 0,
     bodies |-> 0, titles |-> 0, tagss |-> 0, filenames |-> 0,
     \* history
     log |-> <<>>,               \* the calls made, in the order they were made
     fetched |-> <<>>,           \* ranks fetched, in the order of the calls
     fetch_failed |-> {},        \* ranks whose fetch gave no content
     formatted |-> "none",       \* how _format_pages ended
     bad_request |-> FALSE]      \* a request was made on a session not open

----------------------------------------------------------------------------
(* Initial states *)

NoCalls ==
    [check |-> 0, random_prompt |-> 0, image_service |-> 0, image_job |-> 0,
     create_session |-> 0, generate |-> 0, save |-> 0, file_written |-> 0,
     cleanup |-> 0, harness_init |-> 0, harness_cleanup |-> 0]

NoGhost ==
    [init_failed_at |-> -1,     \* sessions tracked when initialize_services failed
     last_closes |-> 0,         \* close() calls made by the latest cleanup
     last_errors |-> 0,         \* errors collected by the latest cleanup
     last_tracked |-> 0,        \* sessions tracked when the latest cleanup began
     last_clients |-> 0,        \* clients held when the latest cleanup began
     last_client_closes |-> 0,  \* client cleanup() calls of the latest cleanup
     cleanups_in_row |-> 0,     \* cleanup calls since the last other call
     rejected |-> 0,            \* initialize_services calls refused as closed
     created_at_close |-> -1,   \* create_session calls made when the agent closed
     check_failed |-> 0]        \* which of the three initial checks returned false

InitAgent ==
    /\ heap = <<>>
    /\ sessions = <<>>
    /\ anthropic = FALSE
    /\ brave_client = FALSE
    /\ is_closed = FALSE
    /\ exc = None
    /\ pending = NoResult
    /\ result = NoResult
    /\ calls = NoCalls
    /\ ghost = NoGhost
    /\ ws = "none"
    /\ pl = NoPipeline

Init ==
    /\ mode = "create"
    /\ pc = "check_dependencies"
    /\ cfg \in Configs
    /\ InitAgent

----------------------------------------------------------------------------
(* BlogAgent.cleanup *)

\* line 208: a closed agent's cleanup returns at once
CleanupSkips == is_closed

\* faulty variant: line 238 left out: the list is not cleared
TrackedNotCleared == sessions

\* line 238: self.sessions after cleanup's finally block
TrackedAfterCleanup == <<>>

ServiceOutcomes == {"ok", "raise"}

\* errors cleanup collects: failed closes, anthropic.cleanup, brave_client.cleanup
CleanupErrors(o, ao, bo) ==
    Cardinality(CloseErrorsOf(o))
    + (IF anthropic /\ ao = "raise" THEN 1 ELSE 0)
    + (IF brave_client /\ cfg.brave_has_cleanup /\ bo = "raise" THEN 1 ELSE 0)

\* lines 221-231: the cleanup() calls made on the clients the agent holds
ClientCleanupCalls ==
    (IF anthropic THEN 1 ELSE 0)
    + (IF brave_client /\ cfg.brave_has_cleanup THEN 1 ELSE 0)

\* the clients the agent holds
ClientsHeld == (IF anthropic THEN 1 ELSE 0) + (IF brave_client THEN 1 ELSE 0)

\* one whole call of cleanup(), c the call counters before it; it never
\* raises (every close is in a try, and the finally block only assigns)
Cleanup(c) ==
    /\ calls' = [c EXCEPT !.cleanup = @ + 1]
    /\ IF CleanupSkips
       THEN /\ ghost' = [ghost EXCEPT !.last_closes = 0, !.last_errors = 0,
                                      !.last_tracked = Len(sessions),
                                      !.last_clients = ClientsHeld,
                                      !.last_client_closes = 0,
                                      !.cleanups_in_row = @ + 1]
            /\ UNCHANGED <<heap, sessions, anthropic, brave_client, is_closed>>
       ELSE \E o \in [DOMAIN sessions -> CloseOutcomes],
               ao \in (IF anthropic THEN ServiceOutcomes ELSE {"ok"}),
               bo \in (IF brave_client /\ cfg.brave_has_cleanup
                       THEN ServiceOutcomes ELSE {"ok"}) :
            /\ heap' = ClosedHeap(o)
            /\ ghost' = [ghost EXCEPT
                            !.last_closes = Cardinality(CloseCallsOf(o)),
                            !.last_errors = CleanupErrors(o, ao, bo),
                            !.last_tracked = Len(sessions),
                            !.last_clients = ClientsHeld,
                            !.last_client_closes = ClientCleanupCalls,
                            !.created_at_close = c.create_session,
                            !.cleanups_in_row = @ + 1]
            /\ is_closed' = TRUE
            /\ sessions' = TrackedAfterCleanup
            /\ anthropic' = FALSE
            /\ brave_client' = FALSE

----------------------------------------------------------------------------
(* BlogAgent.initialize_services, one action per call it awaits *)

\* where control goes when initialize_services returns
InitDonePc == IF mode = "create" THEN "generate" ELSE "idle"

\* faulty variant: the test of line 198 left out
NeedsBraveAlways == TRUE

\* line 198: the search client is made for the researcher only
NeedsBrave == cfg.agent_type = "blog_researcher_ai_agent"

AfterAnthropic == IF NeedsBrave THEN "init_brave" ELSE InitDonePc

\* faulty variant: line 203 left out
InitFailureLeaks == FALSE

\* line 203: the except block of initialize_services calls cleanup
InitFailureCleans == TRUE

\* an acquisition raised inside the try block of initialize_services
AcquisitionRaises ==
    /\ exc' = "External"
    /\ pc' = "init_failed"
    /\ ghost' = [ghost EXCEPT !.init_failed_at = Len(sessions),
                              !.cleanups_in_row = 0]

\* `await self.create_session()` at a step of initialize_services
TryCreateSession(ok, next) ==
    /\ calls' = [calls EXCEPT !.create_session = @ + 1]
    /\ IF ok
       THEN /\ heap' = CreateSessionHeap
            /\ sessions' = CreateSessionList
            /\ pc' = next
            /\ UNCHANGED <<exc, ghost>>
       ELSE /\ AcquisitionRaises
            /\ UNCHANGED <<heap, sessions>>

\* faulty variant: the test of lines 186-187 left out
RejectsNothing == FALSE

\* line 186: a closed agent refuses to initialise
RejectsClosed == is_closed

\* lines 186-187
EnterInitializeServices ==
    /\ pc = "initialize_services"
    /\ IF RejectsClosed
       THEN /\ exc' = "RuntimeError"
            /\ pc' = "raise"
            /\ ghost' = [ghost EXCEPT !.rejected = @ + 1, !.cleanups_in_row = 0]
       ELSE /\ pc' = "init_main_session"
            /\ ghost' = [ghost EXCEPT !.cleanups_in_row = 0]
            /\ UNCHANGED exc
    /\ UNCHANGED <<ws, pl, mode, cfg, heap, sessions, anthropic, brave_client,
                   is_closed, pending, result, calls>>

\* line 191
InitMainSession ==
    /\ pc = "init_main_session"
    /\ \E ok \in BOOLEAN : TryCreateSession(ok, "init_anthropic")
    /\ UNCHANGED <<ws, pl, mode, cfg, anthropic, brave_client, is_closed, pending,
                   result>>

\* line 194
InitAnthropic ==
    /\ pc = "init_anthropic"
    /\ \E ok \in BOOLEAN :
        IF ok
        THEN /\ anthropic' = TRUE
             /\ pc' = IF cfg.anthropic_has_session
                      THEN "init_anthropic_session" ELSE AfterAnthropic
             /\ UNCHANGED <<exc, ghost>>
        ELSE /\ AcquisitionRaises
             /\ UNCHANGED anthropic
    /\ UNCHANGED <<ws, pl, mode, cfg, heap, sessions, brave_client, is_closed,
                   pending, result, calls>>

\* lines 195-196
InitAnthropicSession ==
    /\ pc = "init_anthropic_session"
    /\ \E ok \in BOOLEAN : TryCreateSession(ok, AfterAnthropic)
    /\ UNCHANGED <<ws, pl, mode, cfg, anthropic, brave_client, is_closed, pending,
                   result>>

\* line 199
InitBrave ==
    /\ pc = "init_brave"
    /\ \E ok \in BOOLEAN :
        IF ok
        THEN /\ brave_client' = TRUE
             /\ pc' = "init_brave_session"
             /\ UNCHANGED <<exc, ghost>>
        ELSE /\ AcquisitionRaises
             /\ UNCHANGED brave_client
    /\ UNCHANGED <<ws, pl, mode, cfg, heap, sessions, anthropic, is_closed, pending,
                   result, calls>>

\* line 200
InitBraveSession ==
    /\ pc = "init_brave_session"
    /\ \E ok \in BOOLEAN : TryCreateSession(ok, InitDonePc)
    /\ UNCHANGED <<ws, pl, mode, cfg, anthropic, brave_client, is_closed, pending,
                   result>>

\* lines 201-204: log, cleanup, re-raise
InitFailed ==
    /\ pc = "init_failed"
    /\ IF InitFailureCleans
       THEN Cleanup(calls)
       ELSE UNCHANGED <<heap, sessions, anthropic, brave_client, is_closed,
                        calls, ghost>>
    /\ pc' = "raise"
    /\ UNCHANGED <<ws, pl, mode, cfg, exc, pending, result>>


----------------------------------------------------------------------------
(* BlogAgent.create *)

\* check_dependencies, ensure_directory_structure, verify_paths: true, false,
\* or an exception
CheckOutcomes == {"true", "false", "raise"}

\* faulty variant: the result of a check is not tested
AfterCheckIgnored(o, next) == IF o = "raise" THEN "raise" ELSE next

\* lines 117-122, `if not check(): return ...`: where create goes after a
\* check that ended as o
AfterCheck(o, next) ==
    CASE o = "true" -> next
      [] o = "false" -> "return"
      [] OTHER -> "raise"

\* lines 117-122: one of the three initial checks
InitialCheck(here, next, msg) ==
    /\ mode = "create"
    /\ pc = here
    /\ \E o \in CheckOutcomes :
        /\ pc' = AfterCheck(o, next)
        /\ pending' = IF o = "false" THEN Triple(FALSE, msg, None) ELSE pending
        /\ exc' = IF o = "raise" THEN "External" ELSE exc
        /\ ghost' = IF o = "false"
                    THEN [ghost EXCEPT !.check_failed = calls.check + 1]
                    ELSE ghost
    /\ calls' = [calls EXCEPT !.check = @ + 1]
    /\ UNCHANGED <<ws, pl, mode, cfg, heap, sessions, anthropic, brave_client,
                   is_closed, result>>

\* lines 125-126: where create goes once the three checks passed
AfterChecks ==
    IF cfg.agent_type = BLOG_ARTIST_AI_AGENT
    THEN IF cfg.image_prompt = Absent THEN "random_prompt" ELSE "image_service"
    ELSE "construct"

CheckDependencies ==
    InitialCheck("check_dependencies", "ensure_directory_structure",
                 MsgDependency)

EnsureDirectoryStructure ==
    InitialCheck("ensure_directory_structure", "verify_paths", MsgDirectory)

VerifyPaths == InitialCheck("verify_paths", AfterChecks, MsgPaths)

\* lines 127-128: OpenAIRandomImagePromptService().generate_random_image_prompt()
RandomImagePrompt ==
    /\ pc = "random_prompt"
    /\ \E ok \in BOOLEAN :
        IF ok
        THEN /\ cfg' = [cfg EXCEPT !.image_prompt = Present]
             /\ pc' = "image_service"
             /\ UNCHANGED exc
        ELSE /\ exc' = "External"
             /\ pc' = "raise"
             /\ UNCHANGED cfg
    /\ calls' = [calls EXCEPT !.random_prompt = @ + 1]
    /\ UNCHANGED <<ws, pl, mode, heap, sessions, anthropic, brave_client, is_closed,
                   pending, result, ghost>>

\* ProcessImageService.__init__: a prompt file is missing, a credential of
\* the image service is missing, or MidjourneyImageService.run() is called and
\* returns or raises
ImageServiceOutcomes == {"no_prompt_file", "no_credentials", "run_ok", "run_raise"}

\* _get_image_and_description reaches midjourney_service.run()
SubmitsJob(o) == o \in {"run_ok", "run_raise"}

\* lines 132-136 of agent.py: ProcessImageService(...) is constructed
ImageService ==
    /\ pc = "image_service"
    /\ \E o \in ImageServiceOutcomes :
        /\ calls' = [calls EXCEPT !.image_service = @ + 1,
                                  !.image_job = IF SubmitsJob(o) THEN @ + 1 ELSE @]
        /\ IF o = "run_ok"
           THEN pc' = "construct" /\ UNCHANGED exc
           ELSE pc' = "raise" /\ exc' = "External"
    /\ UNCHANGED <<ws, pl, mode, cfg, heap, sessions, anthropic, brave_client,
                   is_closed, pending, result, ghost>>

\* lines 139-145: cls(...) runs __init__, then __aenter__ starts
Construct ==
    /\ pc = "construct"
    /\ IF ConstructorSucceeds(cfg)
       THEN pc' = "initialize_services" /\ UNCHANGED exc
       ELSE pc' = "raise" /\ exc' = "ValueError"
    /\ UNCHANGED <<ws, pl, mode, cfg, heap, sessions, anthropic, brave_client,
                   is_closed, pending, result, calls, ghost>>

\* ResearcherPostGenerator defines generate_blog_post and no generate, so
\* generator.generate() raises AttributeError for the researcher: a run of
\* create never enters the Researcher pipeline, which PipelineSpec models as
\* called directly
ResearcherHasGenerate == FALSE

\* ArtistPostGenerator.generate(): a (filename, document) pair, nothing, or
\* an exception
ArtistGenerateOutcomes == {"pair", "none", "raise"}

\* BlogAgent.generate_blog_post, lines 267-275: generator.generate(), and
\* self.close(), which does nothing as the agent has no client attribute
GenerateOutcomes ==
    IF cfg.agent_type = BLOG_ARTIST_AI_AGENT
    THEN ArtistGenerateOutcomes
    ELSE IF ResearcherHasGenerate THEN {"pair"} ELSE {"raise"}

\* lines 146-149
Generate ==
    /\ pc = "generate"
    /\ \E o \in GenerateOutcomes :
        /\ pc' = IF o = "pair" THEN "save" ELSE "aexit"
        /\ exc' = IF o = "raise"
                  THEN (IF cfg.agent_type = BLOG_ARTIST_AI_AGENT
                        THEN "External" ELSE "AttributeError")
                  ELSE exc
        /\ pending' = IF o = "none"
                      THEN Triple(FALSE, MsgGeneration, None) ELSE pending
    /\ calls' = [calls EXCEPT !.generate = @ + 1]
    /\ UNCHANGED <<ws, pl, mode, cfg, heap, sessions, anthropic, brave_client,
                   is_closed, result, ghost>>

\* save_to_obsidian_notes: the path, or None when mkdir or the write raised
SaveOutcomes == {"written", "failed"}

\* faulty variant: the test of line 154 left out
SaveResultUnchecked(o) ==
    Triple(TRUE, MsgSuccess, IF o = "written" THEN SavedPath ELSE None)

\* lines 154-157: what create returns after save_to_obsidian_notes
SaveResult(o) ==
    IF o = "written"
    THEN Triple(TRUE, MsgSuccess, SavedPath)
    ELSE Triple(FALSE, MsgSave, None)

\* lines 151-157
Save ==
    /\ pc = "save"
    /\ \E o \in SaveOutcomes :
        /\ pending' = SaveResult(o)
        /\ calls' = [calls EXCEPT !.save = @ + 1,
                                  !.file_written = IF o = "written" THEN @ + 1 ELSE @]
    /\ pc' = "aexit"
    /\ UNCHANGED <<ws, pl, mode, cfg, heap, sessions, anthropic, brave_client,
                   is_closed, exc, result, ghost>>

\* __aexit__: cleanup, and the exception or the return goes on
AExit ==
    /\ pc = "aexit"
    /\ Cleanup(calls)
    /\ pc' = IF exc # None THEN "raise" ELSE "return"
    /\ UNCHANGED <<ws, pl, mode, cfg, exc, pending, result>>

\* faulty variant: the handler of line 159 narrowed to ValueError
CreateCatchesValueErrorOnly(e) == e = "ValueError"

\* line 159: `except Exception` catches every exception raised in the run
CreateCatches(e) == TRUE

\* lines 159-161
CreateExcept ==
    /\ mode = "create"
    /\ pc = "raise"
    /\ IF CreateCatches(exc)
       THEN /\ result' = Triple(FALSE, MsgError, None)
            /\ pc' = "done"
       ELSE /\ pc' = "escaped"
            /\ UNCHANGED result
    /\ UNCHANGED <<ws, pl, mode, cfg, heap, sessions, anthropic, brave_client,
                   is_closed, exc, pending, calls, ghost>>

\* a return statement of create completes
CreateReturn ==
    /\ mode = "create"
    /\ pc = "return"
    /\ result' = pending
    /\ pc' = "done"
    /\ UNCHANGED <<ws, pl, mode, cfg, heap, sessions, anthropic, brave_client,
                   is_closed, exc, pending, calls, ghost>>

Next ==
    \/ CheckDependencies
    \/ EnsureDirectoryStructure
    \/ VerifyPaths
    \/ RandomImagePrompt
    \/ ImageService
    \/ Construct
    \/ EnterInitializeServices
    \/ InitMainSession
    \/ InitAnthropic
    \/ InitAnthropicSession
    \/ InitBrave
    \/ InitBraveSession
    \/ InitFailed
    \/ Generate
    \/ Save
    \/ AExit
    \/ CreateExcept
    \/ CreateReturn

Spec == Init /\ [][Next]_vars


----------------------------------------------------------------------------
(* The agent driven directly: a constructed BlogAgent whose                *)
(* initialize_services and cleanup are called in any order.                *)

LifecycleInit ==
    /\ mode = "lifecycle"
    /\ pc = "idle"
    /\ cfg \in {c \in Configs : ConstructorSucceeds(c)}
    /\ InitAgent

\* await agent.initialize_services()
HarnessInitialize ==
    /\ mode = "lifecycle"
    /\ pc = "idle"
    /\ calls.harness_init < MaxInitCalls
    /\ pc' = "initialize_services"
    /\ calls' = [calls EXCEPT !.harness_init = @ + 1]
    /\ UNCHANGED <<ws, pl, mode, cfg, heap, sessions, anthropic, brave_client,
                   is_closed, exc, pending, result, ghost>>

\* await agent.cleanup()
HarnessCleanup ==
    /\ mode = "lifecycle"
    /\ pc = "idle"
    /\ calls.harness_cleanup < MaxCleanupCalls
    /\ Cleanup([calls EXCEPT !.harness_cleanup = @ + 1])
    /\ UNCHANGED <<ws, pl, mode, pc, cfg, exc, pending, result>>

\* the caller receives the exception initialize_services raised
HarnessCatch ==
    /\ mode = "lifecycle"
    /\ pc = "raise"
    /\ pc' = "idle"
    /\ exc' = None
    /\ UNCHANGED <<ws, pl, mode, cfg, heap, sessions, anthropic, brave_client,
                   is_closed, pending, result, calls, ghost>>

LifecycleNext ==
    \/ HarnessInitialize
    \/ HarnessCleanup
    \/ HarnessCatch
    \/ EnterInitializeServices
    \/ InitMainSession
    \/ InitAnthropic
    \/ InitAnthropicSession
    \/ InitBrave
    \/ InitBraveSession
    \/ InitFailed

LifecycleSpec == LifecycleInit /\ [][LifecycleNext]_vars


----------------------------------------------------------------------------
(* WebService.get_session *)

\* faulty variant: `or self._session.closed` left out of line 16
GetSessionEnterNoReopen(w) == IF w = "none" THEN "open" ELSE w

\* lines 16-17: a session is made when there is none or it is closed
GetSessionEnter(w) == IF w \in {"none", "closed"} THEN "open" ELSE w

\* faulty variant: the finally block of lines 20-22 left out
GetSessionExitNoClose(w) == w

\* lines 20-22: leaving the block closes the session if it is open
GetSessionExit(w) == IF w = "open" THEN "closed" ELSE w

----------------------------------------------------------------------------
(* ResearcherPostGenerator.generate_blog_post, one action per awaited call *)

agentVars ==
    <<mode, cfg, heap, sessions, anthropic, brave_client, is_closed, exc,
      pending, result, calls, ghost>>

\* the agent after initialize_services returned, for a researcher
PipelineInit ==
    /\ mode = "pipeline"
    /\ pc = "gen_start"
    /\ cfg \in {c \in Configs :
                 /\ ConstructorSucceeds(c)
                 /\ c.agent_type = BLOG_RESEARCHER_AI_AGENT
                 /\ c.webhook_url = Absent
                 /\ c.image_prompt = Absent}
    /\ heap = IF cfg.anthropic_has_session
              THEN <<NewSession, NewSession, NewSession>>
              ELSE <<NewSession, NewSession>>
    /\ sessions = IF cfg.anthropic_has_session THEN <<1, 2, 3>> ELSE <<1, 2>>
    /\ anthropic = TRUE
    /\ brave_client = TRUE
    /\ is_closed = FALSE
    /\ exc = None
    /\ pending = NoResult
    /\ result = NoResult
    /\ calls = [NoCalls EXCEPT !.create_session = Len(heap)]
    /\ ghost = NoGhost
    /\ ws = "none"
    /\ pl = NoPipeline

\* faulty variant: the test of lines 25-26 left out
AfterTemplatesUnchecked(k) == "get_session"

\* lines 25-26 and 38: where generate_blog_post goes after _load_templates,
\* in which every template loaded (k = 0) or the k-th read gave nothing
AfterTemplates(k) == IF k = 0 THEN "get_session" ELSE "gen_raise"

\* _load_templates: every template loads (k = 0), or the k-th read gives
\* nothing and ValueError is raised
LoadTemplates ==
    /\ pc = "gen_start"
    /\ \E k \in 0..Len(TemplateNames) :
        /\ pl' = [pl EXCEPT
                    !.reads = IF k = 0 THEN Len(TemplateNames) ELSE k,
                    !.log = [j \in 1..(IF k = 0 THEN Len(TemplateNames) ELSE k)
                                |-> Call("load", j)],
                    !.templates = IF k = 0 THEN Len(TemplateNames) ELSE k - 1]
        /\ pc' = AfterTemplates(k)
    /\ UNCHANGED <<ws, agentVars>>

\* line 40
EnterSession ==
    /\ pc = "get_session"
    /\ ws' = GetSessionEnter(ws)
    /\ pc' = "search"
    /\ UNCHANGED <<pl, agentVars>>

SearchOutcomes == {"ok", "raise"}

\* line 64; an exception leaves the block of line 40
Search ==
    /\ pc = "search"
    /\ \E o \in SearchOutcomes, n \in 0..MaxResults :
        IF o = "ok"
        THEN /\ pl' = [pl EXCEPT !.searches = @ + 1, !.n = n,
                                  !.log = Append(@, Call("search", 0))]
             /\ pc' = "loop"
             /\ UNCHANGED ws
        ELSE /\ pl' = [pl EXCEPT !.searches = @ + 1,
                                  !.log = Append(@, Call("search", 0))]
             /\ ws' = GetSessionExit(ws)
             /\ pc' = "gen_raise"
    /\ UNCHANGED agentVars

\* faulty variant: the slice of line 67 left out
LoopLimitUncapped == pl.n

\* line 67, search_results[:3]: the rank of the last result the loop takes
LoopLimit == Min(pl.n, TopResults)

\* lines 67-68 and 81: the next of the first three results, or the end
LoopHead ==
    /\ pc = "loop"
    /\ IF pl.i <= LoopLimit
       THEN /\ ws' = GetSessionEnter(ws)
            /\ pc' = "fetch"
       ELSE /\ pc' = "body"
            /\ UNCHANGED ws
    /\ UNCHANGED <<pl, agentVars>>

\* fetch_webpage_content: the extracted text, or nothing (a status other
\* than 200, an exception or a timeout, or a page with no text)
FetchOutcomes == {"content", "no_content"}

\* faulty variant: a fetch that gave nothing is made again
AfterFetchRetried(o) == IF o = "content" THEN "summarize" ELSE "fetch"

\* lines 69-70: a result with content is summarised, one without is left
AfterFetch(o) == IF o = "content" THEN "summarize" ELSE "loop_exit"

\* line 69, with web_service.py lines 42-69: the request is made inside a
\* get_session block of its own
Fetch ==
    /\ pc = "fetch"
    /\ \E o \in FetchOutcomes :
        LET during == GetSessionEnter(ws)
        IN /\ pl' = [pl EXCEPT
                        !.fetches = @ + 1,
                        !.fetched = Append(@, pl.i),
                        !.log = Append(@, Call("fetch", pl.i)),
                        !.content = (o = "content"),
                        !.fetch_failed = IF o = "content" THEN @ ELSE @ \cup {pl.i},
                        !.bad_request = @ \/ during # "open"]
           /\ ws' = GetSessionExit(during)
           /\ pc' = AfterFetch(o)
    /\ UNCHANGED agentVars

AskOutcomes == {"text", "empty", "raise"}

\* lines 70-79: only a result with content is summarised and appended
Summarize ==
    /\ pc = "summarize"
    /\ \E o \in AskOutcomes :
        IF o = "raise"
        THEN /\ pl' = [pl EXCEPT !.summaries = @ + 1,
                                  !.log = Append(@, Call("summary", pl.i))]
             /\ ws' = GetSessionExit(GetSessionExit(ws))
             /\ pc' = "gen_raise"
        ELSE /\ pl' = [pl EXCEPT
                        !.summaries = @ + 1,
                        !.log = Append(@, Call("summary", pl.i)),
                        !.research_data =
                            Append(@, [rank |-> pl.i,
                                       content_summary |->
                                           IF o = "text" THEN SummaryText
                                           ELSE Absent])]
             /\ pc' = "loop_exit"
             /\ UNCHANGED ws
    /\ UNCHANGED agentVars

\* the block of line 68 is left
LoopExit ==
    /\ pc = "loop_exit"
    /\ ws' = GetSessionExit(ws)
    /\ pl' = [pl EXCEPT !.i = @ + 1]
    /\ pc' = "loop"
    /\ UNCHANGED agentVars

\* the body completion: a text, nothing, an exception, or _format_prompt
\* raised before the call
BodyOutcomes == {"text", "empty", "raise", "prompt_error"}

\* lines 47-48: an empty body ends the pipeline with the default pair
BodyEmptyReturns == DefaultPair

\* faulty variant: the tags are asked for first, and the title never
AfterBodyTagsFirst(o) ==
    CASE o = "text" -> "tags"
      [] o = "empty" -> "gen_done"
      [] OTHER -> "gen_raise"

\* lines 47-50 and 110: an empty body returns, a body goes on to the title
AfterBody(o) ==
    CASE o = "text" -> "title"
      [] o = "empty" -> "gen_done"
      [] OTHER -> "gen_raise"

\* lines 43-48
Body ==
    /\ pc = "body"
    /\ \E o \in BodyOutcomes :
        /\ pl' = [pl EXCEPT
                    !.research_summary = FormatResearchSummary(pl.research_data),
                    !.bodies = IF o = "prompt_error" THEN @ ELSE @ + 1,
                    !.log = IF o = "prompt_error" THEN @
                            ELSE Append(@, Call("body", 0)),
                    !.body = o,
                    !.ret = IF o = "empty" THEN BodyEmptyReturns ELSE @]
        /\ pc' = AfterBody(o)
        /\ ws' = IF o = "text" THEN ws ELSE GetSessionExit(ws)
    /\ UNCHANGED agentVars

\* faulty variant: generate_tags without its try/except
HelperCatchesNotTags(field) == field # "tags"

\* lines 287, 302, 311: each helper catches what its call raises
HelperCatches(field) == TRUE

\* a helper's call ended as o: does the exception leave the helper
Propagates(field, o) == o \in {"raise", "noprompt"} /\ ~HelperCatches(field)

\* line 110
Title ==
    /\ pc = "title"
    /\ \E o \in FieldOutcomes :
        \E r \in ResponsesOf(o, TitleResponses) :
            /\ pl' = [pl EXCEPT
                        !.titles = IF FieldAsked(o) THEN @ + 1 ELSE @,
                        !.log = IF FieldAsked(o)
                                THEN Append(@, Call("title", 0)) ELSE @,
                        !.out.title = o,
                        !.metadata.title = GenerateTitle(o, r)]
            /\ pc' = IF Propagates("title", o) THEN "gen_raise" ELSE "tags"
            /\ ws' = IF Propagates("title", o) THEN GetSessionExit(ws) ELSE ws
    /\ UNCHANGED agentVars

\* line 111
Tags ==
    /\ pc = "tags"
    /\ \E o \in FieldOutcomes :
        \E r \in ResponsesOf(o, TagsResponses) :
            /\ pl' = [pl EXCEPT
                        !.tagss = IF FieldAsked(o) THEN @ + 1 ELSE @,
                        !.log = IF FieldAsked(o)
                                THEN Append(@, Call("tags", 0)) ELSE @,
                        !.out.tags = o,
                        !.metadata.tags = GenerateTags(o, r)]
            /\ pc' = IF Propagates("tags", o) THEN "gen_raise" ELSE "filename"
            /\ ws' = IF Propagates("tags", o) THEN GetSessionExit(ws) ELSE ws
    /\ UNCHANGED agentVars

\* line 112
Filename ==
    /\ pc = "filename"
    /\ \E o \in FieldOutcomes :
        \E r \in ResponsesOf(o, FilenameResponses) :
            /\ pl' = [pl EXCEPT
                        !.filenames = IF FieldAsked(o) THEN @ + 1 ELSE @,
                        !.log = IF FieldAsked(o)
                                THEN Append(@, Call("filename", 0)) ELSE @,
                        !.out.filename = o,
                        !.filename_response = r,
                        !.metadata.filename = GenerateFilename(o, r)]
            /\ pc' = IF Propagates("filename", o) THEN "gen_raise" ELSE "format"
            /\ ws' = IF Propagates("filename", o) THEN GetSessionExit(ws) ELSE ws
    /\ UNCHANGED agentVars

\* str.format on the frontmatter and blog templates: done, or an exception
\* (a placeholder the call does not supply)
FormatOutcomes == {"ok", "raise"}

\* lines 51-56
Format ==
    /\ pc = "format"
    /\ \E o \in FormatOutcomes :
        /\ pl' = [pl EXCEPT
                    !.formatted = o,
                    !.log = Append(@, Call("format", 0)),
                    !.ret = IF o = "ok"
                            THEN Pair(DatedFilename(pl.metadata.filename),
                                      BlogPage(pl.metadata, BodyText))
                            ELSE @]
        /\ pc' = IF o = "ok" THEN "gen_done" ELSE "gen_raise"
    /\ ws' = GetSessionExit(ws)
    /\ UNCHANGED agentVars

\* faulty variant: the handler returns None
ExceptReturnsNothing == NoPair

\* line 60: what the handler of generate_blog_post returns
ExceptReturns == ErrorPair

\* lines 58-60
PipelineExcept ==
    /\ pc = "gen_raise"
    /\ pl' = [pl EXCEPT !.ret = ExceptReturns]
    /\ pc' = "gen_done"
    /\ UNCHANGED <<ws, agentVars>>

\* agent.py lines 146-149, applied to what generate_blog_post returned: the
\* caller takes a result that is not falsy for a generated post and goes on
\* to save it
CallerTest ==
    /\ mode = "pipeline"
    /\ pc = "gen_done"
    /\ IF NotResult(pl.ret)
       THEN /\ pending' = Triple(FALSE, MsgGeneration, None)
            /\ pc' = "aexit"
       ELSE /\ pc' = "save"
            /\ UNCHANGED pending
    /\ calls' = [calls EXCEPT !.generate = @ + 1]
    /\ UNCHANGED <<ws, pl, mode, cfg, heap, sessions, anthropic, brave_client,
                   is_closed, exc, result, ghost>>

\* the steps of generate_blog_post, then the caller's test and save; the
\* behaviour stops where the caller leaves its `async with` block, the
\* teardown that follows being that of Spec
PipelineNext ==
    \/ LoadTemplates
    \/ EnterSession
    \/ Search
    \/ LoopHead
    \/ Fetch
    \/ Summarize
    \/ LoopExit
    \/ Body
    \/ Title
    \/ Tags
    \/ Filename
    \/ Format
    \/ PipelineExcept
    \/ CallerTest
    \/ Save

PipelineSpec == PipelineInit /\ [][PipelineNext]_vars

----------------------------------------------------------------------------
(* Claims about BlogAgent.create (Spec) and the agent's lifecycle          *)
(* (LifecycleSpec)                                                         *)

Messages ==
    {MsgDependency, MsgDirectory, MsgPaths, MsgGeneration, MsgSave,
     MsgSuccess, MsgError}

ResultTriples ==
    [success : BOOLEAN, message : Messages, filepath : {None, SavedPath}]

\* the config breaks a rule of _validate_agent_type or _validate_requirements
ViolatesValidation ==
    ~(/\ cfg.agent_type \in {BLOG_RESEARCHER_AI_AGENT, BLOG_ARTIST_AI_AGENT}
      /\ ~(cfg.agent_type = BLOG_RESEARCHER_AI_AGENT /\ cfg.topic = Absent)
      /\ ~(cfg.agent_type = BLOG_ARTIST_AI_AGENT /\ cfg.webhook_url = Absent))

\* C1: on every exit path of create, every session create_session opened in
\* the run has been closed exactly once when create returns its result: none
\* is open, none is still tracked, and no session is ever closed twice.
C1_SessionsClosedOnce ==
    /\ \A h \in DOMAIN heap :
        /\ heap[h].closeCalls <= 1
        /\ heap[h].closed <=> heap[h].closeCalls = 1
    /\ pc = "done" =>
        /\ \A h \in DOMAIN heap : heap[h].closed /\ heap[h].closeCalls = 1
        /\ sessions = <<>>

\* C1 witness: a run that opened sessions, generated, saved and returned success
C1_Witness ==
    /\ pc = "done"
    /\ result.success
    /\ Len(heap) >= 2

\* C2: create never lets an exception escape; whatever fails (checks, image
\* job, validation, acquisition, generation, persistence, teardown), the run
\* ends by returning a (success, message, filepath) result.
C2_NeverRaises ==
    /\ pc # "escaped"
    /\ pc = "done" => result \in ResultTriples /\ exc \in {None, "External",
                          "ValueError", "RuntimeError", "AttributeError"}
    /\ pc = "raise" => exc # None

\* C2 witness: an exception in the run and errors in teardown, and create
\* returned the error result
C2_Witness ==
    /\ pc = "done"
    /\ result = Triple(FALSE, MsgError, None)
    /\ ghost.last_errors > 0

\* C3: a config that violates validation makes create return a failure
\* result, and no create_session call is made in that run.
C3_InvalidConfigOpensNothing ==
    ViolatesValidation =>
        /\ calls.create_session = 0
        /\ heap = <<>>
        /\ pc = "done" => result \in ResultTriples /\ ~result.success

\* C3 witness: an invalid config passed the three checks, reached the
\* constructor and was rejected there
C3_Witness ==
    /\ ViolatesValidation
    /\ pc = "done"
    /\ calls.check = 3
    /\ result = Triple(FALSE, MsgError, None)

\* C4 (as claimed): validation is the first phase; a config that violates it
\* is rejected before any collaborator is touched: no random-prompt call, no
\* ProcessImageService construction, no image job, no session.
C4_ValidationFirst ==
    ViolatesValidation =>
        /\ calls.random_prompt = 0
        /\ calls.image_service = 0
        /\ calls.image_job = 0
        /\ calls.create_session = 0

\* C5: cleanup is idempotent: after a cleanup call the tracked session list is
\* empty, and a cleanup call that follows another closes nothing and collects
\* no error.
C5_CleanupIdempotent ==
    /\ ghost.cleanups_in_row >= 1 => sessions = <<>> /\ is_closed
    /\ ghost.cleanups_in_row >= 2 =>
        /\ ghost.last_closes = 0
        /\ ghost.last_errors = 0

\* C5 witness: initialize_services failed partway (and cleaned up), and
\* cleanup was then called again
C5_Witness ==
    /\ ghost.cleanups_in_row >= 2
    /\ ghost.init_failed_at >= 1
    /\ Len(heap) >= 1

\* C5 witness of the plain case: two cleanup calls after a full initialisation
C5_WitnessFull ==
    /\ ghost.cleanups_in_row >= 2
    /\ ghost.init_failed_at = -1
    /\ Len(heap) >= 2

\* C6 (as claimed): when acquisition fails partway, exactly the resources
\* acquired so far are torn down, nothing is acquired later, and create
\* returns a dependency-class failure.
C6_PartialFailureDependencyResult ==
    (pc = "done" /\ ghost.init_failed_at >= 0) =>
        /\ Len(heap) = ghost.init_failed_at
        /\ \A h \in DOMAIN heap : heap[h].closed /\ heap[h].closeCalls = 1
        /\ ~result.success
        /\ result.message \in {MsgDependency, MsgDirectory, MsgPaths}

\* C6 (amended): when acquisition fails partway, exactly the sessions acquired
\* so far are closed, once each, no session or client is acquired afterwards,
\* and create returns the generic failure (False, "Error: ...", None).
C6_PartialFailureTornDown ==
    /\ ghost.init_failed_at >= 0 =>
        /\ Len(heap) = ghost.init_failed_at
        /\ calls.generate = 0 /\ calls.save = 0
    /\ (ghost.init_failed_at >= 0 /\ pc \in {"raise", "done"}) =>
        /\ \A h \in DOMAIN heap : heap[h].closed /\ heap[h].closeCalls = 1
        /\ sessions = <<>> /\ ~anthropic /\ ~brave_client
    /\ (ghost.init_failed_at >= 0 /\ pc = "done") =>
        result = Triple(FALSE, MsgError, None)

\* C6 witness: the researcher's third session failed after two were acquired
C6_Witness ==
    /\ pc = "done"
    /\ ghost.init_failed_at = 2
    /\ cfg.agent_type = BLOG_RESEARCHER_AI_AGENT
    /\ ghost.last_closes = 2


\* C13: the result of create carries a file path exactly when its success
\* flag is true: a success result has the path of a file written in this run
\* (after a generation and a save), a failure result has no path, and the
\* same holds of the value a return statement carries.
C13_PathIffSuccess ==
    /\ pc = "done" =>
        /\ result.success <=> result.filepath # None
        /\ result.success =>
            /\ result.filepath = SavedPath
            /\ calls.file_written = 1 /\ calls.save = 1 /\ calls.generate = 1
    /\ pending.success <=> pending.filepath # None

\* C13, the failure case: a save that failed after a generation that
\* succeeded, returned as a failure with no path
C13_WitnessSaveFailed ==
    /\ pc = "done"
    /\ calls.save = 1 /\ calls.file_written = 0
    /\ result = Triple(FALSE, MsgSave, None)

\* C13 witness: the file was written and its path returned
C13_Witness ==
    /\ pc = "done"
    /\ calls.file_written = 1
    /\ result = Triple(TRUE, MsgSuccess, SavedPath)


\* C15: teardown closes every acquired handle even when closing fails. After
\* a call of cleanup the agent is marked closed, its session list is empty,
\* it holds no client, and every session it had acquired is closed; the call
\* attempted to close every session it tracked, whichever of the close()
\* calls raised, and the errors it collected are those of the attempts it
\* made. Clients that were never acquired are tolerated: the call makes no
\* cleanup() call for them.
C15_TeardownClosesAll ==
    ghost.cleanups_in_row >= 1 =>
        /\ is_closed /\ sessions = <<>> /\ ~anthropic /\ ~brave_client
        /\ \A h \in DOMAIN heap : heap[h].closed
        /\ ghost.last_closes = ghost.last_tracked
        /\ ghost.last_client_closes <= ghost.last_clients
        /\ ghost.last_errors <= ghost.last_closes + ghost.last_client_closes
        /\ exc # None => ghost.init_failed_at >= 0

\* C15 witness: a cleanup of three sessions and two clients in which every
\* close raised: five errors collected, and everything closed
C15_Witness ==
    /\ ghost.cleanups_in_row = 1
    /\ ghost.last_tracked = 3 /\ ghost.last_clients = 2
    /\ ghost.last_errors = 5
    /\ is_closed /\ sessions = <<>>
    /\ \A h \in DOMAIN heap : heap[h].closed

\* C15, absent handles: initialize_services failed at its first session, and
\* the cleanup it ran had no session and no client to close
C15_WitnessAbsent ==
    /\ ghost.cleanups_in_row = 1
    /\ ghost.init_failed_at = 0
    /\ ghost.last_tracked = 0 /\ ghost.last_clients = 0
    /\ is_closed


\* the steps of initialize_services that acquire a session or a client
AcquisitionSteps ==
    {"init_main_session", "init_anthropic", "init_anthropic_session",
     "init_brave", "init_brave_session"}

\* C19: resources are never reused after teardown. Once cleanup has run the
\* agent holds no completion client, no search client and no tracked session
\* in any later state, every session it had is closed, and every later call
\* of initialize_services is refused with an error before it acquires
\* anything: no create_session call is made after the teardown.
C19_NoReuseAfterTeardown ==
    is_closed =>
        /\ ~anthropic /\ ~brave_client /\ sessions = <<>>
        /\ \A h \in DOMAIN heap : heap[h].closed
        /\ pc \notin AcquisitionSteps
        /\ calls.create_session = ghost.created_at_close
        /\ ghost.rejected > 0 /\ pc = "raise" /\ ghost.cleanups_in_row = 0
                => exc = "RuntimeError"

\* C19 witness: the agent was initialised with three sessions and torn down,
\* and a second initialize_services call was refused
C19_Witness ==
    /\ is_closed
    /\ ghost.rejected = 1
    /\ calls.harness_init = 2
    /\ Len(heap) = 3
    /\ ghost.init_failed_at = -1
    /\ pc = "raise" /\ exc = "RuntimeError"


\* create is inside its `async with` block: initialize_services returned
ServicesInitialised == pc \in {"generate", "save", "aexit"} /\ ~is_closed

\* C20: acquisition is kind-specific. A run whose acquisition completed holds
\* the completion client, whatever the kind; it holds the search client, and
\* the session made for it, if and only if the kind is RESEARCHER; and an
\* ARTIST run never holds a search client nor reaches the steps that make one.
C20_KindSpecificAcquisition ==
    LET researcher == cfg.agent_type = "blog_researcher_ai_agent"
        artist == cfg.agent_type = "blog_artist_ai_agent"
    IN /\ brave_client => researcher
       /\ pc \in {"init_brave", "init_brave_session"} => researcher /\ anthropic
       /\ artist => ~brave_client
       /\ ServicesInitialised =>
            /\ researcher \/ artist
            /\ anthropic
            /\ brave_client <=> researcher
            /\ Len(sessions) = 1 + (IF cfg.anthropic_has_session THEN 1 ELSE 0)
                                  + (IF researcher THEN 1 ELSE 0)
            /\ calls.create_session = Len(sessions)

\* C20 witness: an artist run whose acquisition completed: the completion
\* client and its session, and no search client
C20_Witness ==
    /\ pc = "generate"
    /\ cfg.agent_type = "blog_artist_ai_agent"
    /\ cfg.anthropic_has_session
    /\ anthropic /\ ~brave_client
    /\ Len(sessions) = 2

\* C20, the researcher: the completion client, the search client and three
\* sessions
C20_WitnessResearcher ==
    /\ pc = "generate"
    /\ cfg.agent_type = "blog_researcher_ai_agent"
    /\ anthropic /\ brave_client
    /\ Len(sessions) = 3


\* C21: a failed dependency check, directory-structure check or path
\* verification is detected before acquisition and reported distinctly: the
\* run makes no later call (no random prompt, no image service or image job,
\* no session, no generation, no save), and create returns a failure whose
\* message is the one of the check that failed, which differs from the
\* other checks' messages and from the generation-failure, the
\* persistence-failure and the success messages.
C21_DependencyFailureDistinct ==
    LET k == ghost.check_failed
        msg == <<"Dependency check failed",
                 "Directory structure check failed",
                 "Path verification failed">>
    IN k > 0 =>
        /\ calls.check = k
        /\ calls.random_prompt = 0 /\ calls.image_service = 0
        /\ calls.image_job = 0
        /\ calls.create_session = 0 /\ heap = <<>>
        /\ ~anthropic /\ ~brave_client
        /\ calls.generate = 0 /\ calls.save = 0 /\ calls.file_written = 0
        /\ calls.cleanup = 0
        /\ pc \in {"return", "done"}
        /\ pending = Triple(FALSE, msg[k], None)
        /\ pc = "done" => result = Triple(FALSE, msg[k], None)
        /\ msg[k] \notin {MsgGeneration, MsgSave, MsgSuccess, MsgError}
        /\ \A j \in 1..3 : j # k => msg[j] # msg[k]

\* C21 witness: for an artist, the first two checks passed and the path
\* verification failed; create returned its message having touched nothing
C21_Witness ==
    /\ pc = "done"
    /\ ghost.check_failed = 3
    /\ cfg.agent_type = "blog_artist_ai_agent"
    /\ result = Triple(FALSE, "Path verification failed", None)
    /\ calls.image_job = 0 /\ calls.create_session = 0


----------------------------------------------------------------------------
(* Claims about the Researcher pipeline (PipelineSpec) *)

MetadataFields == {"title", "tags", "filename"}

\* the default of a metadata field, as the claims give it
DefaultOf ==
    [title |-> <<"Default", " ", "Title", " ", "Post", " ", "Is", " ", "Here">>,
     filename |-> <<"Default", "-", "Title", "-", "Post", "-", "Is", "-", "Here">>,
     tags |-> <<"[]">>]

\* the values the helpers make of the model's non-empty responses
GeneratedOf ==
    [title |-> {<<"Quantum", " ", "Computing">>},
     tags |-> {<<"[qc,", " ", "physics]">>},
     filename |->
        {<<"foo", "-", "bar", "-", "Update", "-", "Update", "-", "Update">>,
         <<"Quantum", "-", "Computing", "-", "Explained", "-", "Today", "-", "Now">>,
         <<"a", "-", "b", "-", "c", "-", "d", "-", "e">>,
         <<"foo", "-", "-", "bar", "-", "Update", "-", "Update">>,
         <<"-", "Update", "-", "Update", "-", "Update", "-", "Update">>}]

\* C7 (as claimed): a failed fetch keeps the result, with an absent summary:
\* the research summary has one block per top-3 result, in rank order, and
\* the block of a result whose fetch failed reads "No summary available."
C7_FailedFetchKept ==
    pl.body # "none" =>
        LET blocks == pl.research_summary
            m == Min(pl.n, 3)
        IN /\ Len(blocks) = m
           /\ \A r \in 1..m :
                /\ blocks[r].source = r
                /\ r \in pl.fetch_failed =>
                        blocks[r].summary = "No summary available."

\* C8 (as claimed): a body completion that fails or is empty aborts the run
\* with a failure result: no metadata call is made, and what the pipeline
\* returns is not taken for a generated post by its caller.
C8_BodyFailureAborts ==
    (pc = "gen_done" /\ pl.body \in {"empty", "raise"}) =>
        /\ pl.titles = 0 /\ pl.tagss = 0 /\ pl.filenames = 0
        /\ NotResult(pl.ret)

\* C9 (as claimed): a metadata helper whose completion call fails (raises, or
\* its template cannot be read) or returns an empty response returns the
\* field's fixed default.
C9_FieldDefaults ==
    \A f \in MetadataFields :
        pl.out[f] \in {"raise", "noprompt", "empty"} =>
            pl.metadata[f] = DefaultOf[f]

\* C10: whichever of the three metadata calls fail (raise, or cannot read
\* their template), the run is not aborted by them and the fields do not
\* affect each other: a field whose call succeeded carries its generated
\* value, a field whose call failed carries its default, and the document and
\* filename the pipeline returns carry exactly these values.
C10_FieldIsolation ==
    /\ \A f \in MetadataFields :
        /\ pl.out[f] = "ok" => pl.metadata[f] \in GeneratedOf[f]
        /\ pl.out[f] \in {"raise", "noprompt"} => pl.metadata[f] = DefaultOf[f]
    /\ (pc = "gen_raise" /\ pl.body = "text") => pl.formatted = "raise"
    /\ (pc = "gen_done" /\ pl.body = "text" /\ pl.formatted = "ok") =>
        /\ pl.out.title # "none" /\ pl.out.tags # "none" /\ pl.out.filename # "none"
        /\ pl.ret.blog_page.frontmatter.title = pl.metadata.title
        /\ pl.ret.blog_page.frontmatter.tags = pl.metadata.tags
        /\ pl.ret.blog_page.content = BodyText
        /\ pl.ret.filename = <<Today, "-">> \o pl.metadata.filename \o <<".md">>

\* C10 witness: the tags call raised, the title and filename calls answered,
\* and the document has the generated title and filename and the tags "[]"
C10_Witness ==
    /\ pc = "gen_done"
    /\ pl.out = [title |-> "ok", tags |-> "raise", filename |-> "ok"]
    /\ pl.ret.blog_page.frontmatter.title = <<"Quantum", " ", "Computing">>
    /\ pl.ret.blog_page.frontmatter.tags = <<"[]">>
    /\ pl.ret.filename =
        <<Today, "-", "Quantum", "-", "Computing", "-", "Explained", "-",
          "Today", "-", "Now", ".md">>

\* the words of a text: its tokens other than spaces and hyphens
WordsOf(t) == SelectSeq(t, LAMBDA x : x \notin {" ", "-"})

\* words joined by single hyphens
RECURSIVE HyphenJoined(_)
HyphenJoined(w) ==
    IF w = <<>> THEN <<>>
    ELSE IF Len(w) = 1 THEN w
    ELSE <<Head(w), "-">> \o HyphenJoined(Tail(w))

\* the stem the claim gives a response of n words: the first 5, or the n
\* words and 5 - n times "Update"
StemOf(response) ==
    LET w == WordsOf(response)
        n == Len(w)
    IN HyphenJoined(IF n > 5 THEN SubSeq(w, 1, 5)
                    ELSE w \o [k \in 1..(5 - n) |-> "Update"])

\* C11 (as claimed): a non-empty filename response of n words gives a stem of
\* exactly 5 hyphen-joined words: the first 5 when n > 5, the n words and
\* 5 - n times "Update" when n < 5, the input when n = 5; and the filename
\* returned is "<date>-<stem>.md".
C11_FilenameNormalized ==
    pl.out.filename = "ok" =>
        /\ Len(WordsOf(pl.metadata.filename)) = 5
        /\ pl.metadata.filename = StemOf(pl.filename_response)
        /\ (pc = "gen_done" /\ pl.formatted = "ok") =>
                pl.ret.filename =
                    <<Today, "-">> \o StemOf(pl.filename_response) \o <<".md">>

\* a response whose words are separated by single spaces or hyphens, with no
\* space or hyphen at either end
WellSeparated(t) ==
    /\ t # <<>>
    /\ \A i \in DOMAIN t : (t[i] \in {" ", "-"}) <=> (i % 2 = 0)
    /\ Len(t) % 2 = 1

\* what holds of generate_filename: the normalisation the claim describes, for
\* well-separated responses
C11_WellSeparatedNormalized ==
    (pl.out.filename = "ok" /\ WellSeparated(pl.filename_response)) =>
        /\ Len(WordsOf(pl.metadata.filename)) = 5
        /\ pl.metadata.filename = StemOf(pl.filename_response)
        /\ (pc = "gen_done" /\ pl.formatted = "ok") =>
                pl.ret.filename =
                    <<Today, "-">> \o StemOf(pl.filename_response) \o <<".md">>

\* C11, the failing case: a response of two words with two spaces between
\* them gives a stem with an empty piece and two "Update", four words in all
C11_Witness ==
    /\ pc = "gen_done"
    /\ pl.filename_response = <<"foo", " ", " ", "bar">>
    /\ pl.ret.filename =
        <<Today, "-", "foo", "-", "-", "bar", "-", "Update", "-", "Update", ".md">>

\* generate_blog_post has returned to its caller
PipelineReturned == pc \in {"gen_done", "save", "aexit"}

\* a read of _load_templates gave nothing
TemplateLoadFailed == pl.reads > 0 /\ pl.templates < 6

\* C12: if one of the six required templates fails to load, the pipeline
\* aborts before any external call: no search, no fetch, no completion call
\* (summary, body, title, tags, filename) is made in that run, no web session
\* is opened, and the pipeline ends in its exception handler.
C12_TemplateFailFast ==
    TemplateLoadFailed =>
        /\ pl.searches = 0 /\ pl.fetches = 0
        /\ pl.summaries = 0 /\ pl.bodies = 0
        /\ pl.titles = 0 /\ pl.tagss = 0 /\ pl.filenames = 0
        /\ ws = "none"
        /\ pc = "gen_raise" \/ PipelineReturned
        /\ PipelineReturned => pl.ret.filename = <<"error.md">>

\* C12 witness: the fourth template (frontmatter) failed to load after three
\* had loaded, and the pipeline returned through its exception handler
C12_Witness ==
    /\ pc = "gen_done"
    /\ pl.reads = 4 /\ pl.templates = 3
    /\ pl.searches = 0
    /\ pl.ret.filename = <<"error.md">>

\* generate_blog_post returned without having assembled a document: a
\* template failed to load, the search or a completion raised, the body was
\* empty, or the formatting raised
GenerationFailed == PipelineReturned /\ pl.formatted # "ok"

RankOrdered(ranks, top) ==
    /\ \A k \in DOMAIN ranks : ranks[k] \in 1..top
    /\ \A j, k \in DOMAIN ranks : j < k => ranks[j] < ranks[k]

\* C16: of a search result list of length n only the first min(n, 3) results
\* are consulted: the ranks fetched are 1, 2, ... in this order, none above
\* min(n, 3) (a result ranked 4th or later is never fetched or summarised);
\* when the loop is over every one of the first min(n, 3) was fetched; and
\* the items of the research data and the blocks of the research summary are
\* in the order of their search rank.
C16_TopThreeInRankOrder ==
    LET top == IF pl.n < 3 THEN pl.n ELSE 3
    IN /\ Len(pl.fetched) <= top
       /\ \A k \in DOMAIN pl.fetched : pl.fetched[k] = k
       /\ RankOrdered([k \in DOMAIN pl.research_data |->
                            pl.research_data[k].rank], top)
       /\ pl.summaries <= Len(pl.fetched)
       /\ pl.body # "none" =>
            /\ Len(pl.fetched) = top
            /\ RankOrdered([k \in DOMAIN pl.research_summary |->
                                pl.research_summary[k].source], top)
            /\ Len(pl.research_summary) = Len(pl.research_data)

\* C16 witness: the search returned four results, the first three were
\* fetched and summarised, and the summary has their blocks in rank order
C16_Witness ==
    /\ pl.n = 4
    /\ pl.body = "text"
    /\ pl.fetched = <<1, 2, 3>>
    /\ Len(pl.research_summary) = 3
    /\ \A k \in 1..3 : pl.research_summary[k].source = k

\* C17: no external call is retried. In a run the search client is called at
\* most once, each selected result is fetched at most once, at most one
\* summary is requested per result whose fetch gave content, the body, the
\* title, the tags and the filename completions are requested at most once
\* each, and the file write is attempted at most once, whatever failed.
C17_NoRetry ==
    /\ pl.searches <= 1
    /\ \A j, k \in DOMAIN pl.fetched : pl.fetched[j] = pl.fetched[k] => j = k
    /\ pl.fetches = Len(pl.fetched)
    /\ pl.summaries <= Len(pl.fetched) - Cardinality(pl.fetch_failed)
    /\ pl.bodies <= 1
    /\ pl.titles <= 1 /\ pl.tagss <= 1 /\ pl.filenames <= 1
    /\ calls.generate <= 1
    /\ calls.save <= 1 /\ calls.file_written <= 1

\* C17 witness: a run in which the second fetch gave nothing, the tags
\* completion raised and the file write failed, each call made once
C17_Witness ==
    /\ pc = "aexit"
    /\ pl.fetched = <<1, 2, 3>> /\ pl.fetch_failed = {2}
    /\ pl.summaries = 2
    /\ pl.out.tags = "raise" /\ pl.tagss = 1
    /\ calls.save = 1 /\ calls.file_written = 0

\* the place of a call in the order of the phases: the six template loads,
\* the search, for each result its fetch and then its summary, the body, the
\* title, the tags, the filename, the template substitution
PhaseOrder(e) ==
    CASE e.call = "load" -> e.rank
      [] e.call = "search" -> 7
      [] e.call = "fetch" -> 10 * e.rank
      [] e.call = "summary" -> 10 * e.rank + 1
      [] e.call = "body" -> 50
      [] e.call = "title" -> 51
      [] e.call = "tags" -> 52
      [] e.call = "filename" -> 53
      [] e.call = "format" -> 54

\* C18: the calls of a pipeline run are made in phase order: the calls in the
\* log are in strictly increasing order of phase (so results are taken in rank
\* order and nothing is called twice), the six template loads come before
\* any other call, a summary directly follows the fetch of its result, the
\* body is asked for only when the loop over the first min(n, 3) results is
\* over, the title, tags and filename helpers run in this order after the
\* body, and the substitution comes after all three.
C18_PhaseOrder ==
    LET log == pl.log
        len == Len(log)
        top == IF pl.n < 3 THEN pl.n ELSE 3
        fetches == {k \in 1..len : log[k].call = "fetch"}
        body == {k \in 1..len : log[k].call = "body"}
    IN /\ \A k \in 1..(len - 1) : PhaseOrder(log[k]) < PhaseOrder(log[k + 1])
       /\ \A k \in 1..len : k <= 6 <=> log[k] = [call |-> "load", rank |-> k]
       /\ len >= 7 => log[7].call = "search"
       /\ \A k \in 1..len :
            log[k].call = "summary" =>
                log[k - 1] = [call |-> "fetch", rank |-> log[k].rank]
       /\ \A k \in fetches :
            /\ log[k].rank \in 1..top
            /\ log[k].rank > 1 =>
                \E j \in fetches : j < k /\ log[j].rank = log[k].rank - 1
       /\ \A k \in 1..len :
            log[k].call \in {"title", "tags", "filename", "format"} => body # {}
       /\ body # {} => Cardinality(fetches) = top
       /\ pl.tagss > 0 => pl.out.title # "none"
       /\ pl.filenames > 0 => pl.out.title # "none" /\ pl.out.tags # "none"
       /\ pl.formatted # "none" =>
            pl.out.title # "none" /\ pl.out.tags # "none" /\ pl.out.filename # "none"
       /\ pc = "summarize" =>
            len > 0 /\ log[len] = [call |-> "fetch", rank |-> pl.i]

\* C18 witness: a run over three results that made every call, in order
C18_Witness ==
    /\ pc = "gen_done"
    /\ Len(pl.log) = 18
    /\ pl.log[7].call = "search"
    /\ pl.log[8] = [call |-> "fetch", rank |-> 1]
    /\ pl.log[9] = [call |-> "summary", rank |-> 1]
    /\ pl.log[12] = [call |-> "fetch", rank |-> 3]
    /\ pl.log[14].call = "body"
    /\ pl.log[15].call = "title"
    /\ pl.log[16].call = "tags"
    /\ pl.log[17].call = "filename"
    /\ pl.log[18].call = "format"

\* C22: no request is made on a closed session. Every request of
\* fetch_webpage_content found the session open; the block of line 68 hands
\* an open session to each fetch, for the first, second and third result
\* alike, although the exit of the block inside fetch_webpage_content has
\* closed the session the enclosing blocks share by the time the summary is
\* asked for.
C22_NoRequestOnClosedSession ==
    /\ ~pl.bad_request
    /\ pc = "fetch" => ws = "open"
    /\ pc \in {"summarize", "loop_exit"} => ws = "closed"
    /\ (pc = "loop" /\ pl.fetches > 0) => ws = "closed"

\* C22 witness: three results were fetched, the second and third after the
\* session had been closed by the fetch before, none on a closed session
C22_Witness ==
    /\ pc = "loop_exit"
    /\ pl.fetched = <<1, 2, 3>>
    /\ pl.fetches = 3
    /\ ~pl.bad_request
    /\ ws = "closed"

\* the positions of the pipeline inside the get_session block of line 40
InSessionBlock ==
    pc \in {"search", "loop", "fetch", "summarize", "loop_exit", "body",
            "title", "tags", "filename", "format"}

\* C23: the WebService session never leaks. In every state in which no
\* get_session block is active (before the block of line 40, in the
\* exception handler, and once the pipeline has returned, with a document,
\* the default pair or the error pair) the WebService has no session or a
\* closed one; and the session is never among the sessions the agent
\* tracks: the pipeline opens and closes none of them.
C23_WebSessionNeverLeaks ==
    /\ ~InSessionBlock => ws \in {"none", "closed"}
    /\ (PipelineReturned \/ pc = "gen_raise") =>
            (ws = "none" <=> pl.searches = 0)
    /\ Len(heap) = calls.create_session
    /\ \A h \in DOMAIN heap : ~heap[h].closed /\ heap[h].closeCalls = 0

\* C23 witness: the search returned nothing, so that the session of line 40
\* was open until the block was left, and the pipeline returned a document
\* with the session closed
C23_Witness ==
    /\ pc = "gen_done"
    /\ pl.n = 0 /\ pl.searches = 1 /\ pl.fetches = 0
    /\ pl.formatted = "ok"
    /\ ws = "closed"

\* C23, a fetch that failed and an exception in the pipeline: the second
\* fetch gave nothing, the body completion raised, and the session is closed
C23_WitnessFailure ==
    /\ pc = "gen_done"
    /\ 2 \in pl.fetch_failed
    /\ pl.body = "raise"
    /\ ws = "closed"

\* C24: generate_blog_post never returns an absent result. Whatever fails in
\* it, it returns a (filename, document) pair: "default.md" with a failure
\* text when the body is empty, "error.md" with an error text when a
\* template fails to load, the search, a summary or the body completion
\* raises or the formatting raises, and the dated filename with the page
\* otherwise. Its caller's test for an absent result therefore never fires:
\* the caller goes on to save whatever was returned, and "Blog generation
\* failed" is never the outcome.
C24_PipelineAlwaysReturnsPair ==
    /\ PipelineReturned =>
        /\ ~NotResult(pl.ret)
        /\ pl.ret.filename # <<>>
        /\ pl.body = "empty" =>
                pl.ret = Pair(<<"default.md">>,
                              PlainText("Failed to generate content"))
        /\ (pl.formatted # "ok" /\ pl.body # "empty") =>
                pl.ret = Pair(<<"error.md">>,
                              PlainText("Error generating post: <exception>"))
        /\ pl.formatted = "ok" =>
                /\ pl.ret.filename \notin {<<"error.md">>, <<"default.md">>}
                /\ pl.ret.blog_page.content = BodyText
    /\ ~PipelineReturned => pl.ret = NoPair
    /\ calls.generate > 0 => pc \in {"save", "aexit"}
    /\ pc = "aexit" => calls.save = 1
    /\ pending.message # "Blog generation failed"

\* C24 witness: the summary completion of the first result raised; the
\* pipeline returned the error pair and its caller went on to save it
C24_Witness ==
    /\ pc = "save"
    /\ pl.summaries = 1 /\ pl.research_data = <<>> /\ pl.bodies = 0
    /\ pl.ret.filename = <<"error.md">>
    /\ calls.generate = 1

\* C24, the empty body: the default pair was returned and saved
C24_WitnessEmptyBody ==
    /\ pc = "aexit"
    /\ pl.body = "empty"
    /\ pl.ret.filename = <<"default.md">>
    /\ calls.file_written = 1


====
